---- MODULE Spec2Model ----
(***************************************************************************)
(* Retrieval evaluation engine of llama_index:                             *)
(*   BaseRetrievalEvaluator.aevaluate          (retrieval/base.py 97-120)  *)
(*   BaseRetrievalEvaluator.aevaluate_dataset  (retrieval/base.py 122-142) *)
(*                                                                         *)
(* aevaluate_dataset runs on an asyncio event loop.  The model keeps the   *)
(* loop's FIFO queue of ready callbacks (ready), one asyncio Task per      *)
(* dataset entry (eval_worker), the asyncio.Semaphore (sem_value,          *)
(* sem_waiters) and the future returned by asyncio.gather (outer).  One    *)
(* action runs one callback of the loop to its next suspension point; the  *)
(* environment completes retrieval calls and may cancel the caller.        *)
(***************************************************************************)
EXTENDS Integers, Sequences, FiniteSets, TLC

\* ------------------------------------------------------------------ bounds
MaxQueries == 3
MaxWorkers == 2
MaxMetrics == 2

\* ------------------------------------------------------------------ inputs
\* Dataset entries: (query text, expected ids) as read at base.py 137-138.
Entries ==
    { [query |-> "qa", expected_ids |-> <<"d1">>],
      [query |-> "qb", expected_ids |-> <<>>] }

\* What _aget_retrieved_ids may return (base.py 75, abstract).
RetrievedIds == { <<>>, <<"d2", "d1">> }

\* Metric instances: a name and an implementation.  Two of them share the
\* name "hit_rate"; the implementation "strict" raises on empty retrieved ids.
MetricPool ==
    { [metric_name |-> "hit_rate", impl |-> "a"],
      [metric_name |-> "mrr",      impl |-> "b"],
      [metric_name |-> "hit_rate", impl |-> "strict"] }

SeqsUpTo(S, n) == UNION { [1..k -> S] : k \in 0..n }

Datasets    == SeqsUpTo(Entries, MaxQueries)
MetricLists == SeqsUpTo(MetricPool, MaxMetrics)

\* The evaluator used for dataset runs: its second metric raises when the
\* retriever returned nothing, so an evaluation can end with a result, with
\* the retriever's exception or with a metric's exception.
RunMetricLists ==
    { << [metric_name |-> "mrr", impl |-> "b"],
         [metric_name |-> "hit_rate", impl |-> "strict"] >> }

\* `workers: int = 2`, base.py 123.
DefaultWorkers == 2

\* ------------------------------------------------------------- exceptions
CancelledError        == [type |-> "CancelledError"]
RetrieverError(i)     == [type |-> "RetrieverError", task |-> i]
MetricError(i, k, nm) == [type |-> "MetricError", task |-> i, index |-> k, impl |-> nm]

VARIABLES
    dataset,      \* the dataset argument: sequence of entries in iteration order
    workers,      \* the workers argument
    metrics,      \* self.metrics
    ppc,          \* the aevaluate_dataset call: "init", "awaiting", "returned", "raised", "cancelled"
    pmust,        \* _must_cancel of the task running aevaluate_dataset
    pval,         \* what the call returned (a sequence) or raised (an exception)
    outer,        \* the gather future: [state, cancel_requested, nfinished, val]
    ready,        \* the event loop's queue of ready callbacks
    tpc,          \* per eval_worker task: "scheduled", "acquire", "retrieve", "finished"
    tstate,       \* per task future: "pending", "result", "exception", "cancelled"
    tval,         \* per task: its result or exception
    tmust,        \* per task: _must_cancel
    wfut,         \* per task: the future it awaits: [state, val]
    sem_value,    \* semaphore._value
    sem_waiters,  \* semaphore._waiters: tasks whose waiter future is queued
    calls,        \* per task: the calls it made to the retriever and the metrics
    failures,     \* tasks whose evaluation raised, in the order in time they raised
    late,         \* tasks that called the retriever or a metric after the call had ended
    overtaken,    \* some evaluation completed while an earlier entry's was still pending
    gen           \* a generate_questions_from_nodes call: [pc, nodes, num, k,
                  \* questions, responses, result]

vars == << dataset, workers, metrics, ppc, pmust, pval, outer, ready, tpc, tstate,
           tval, tmust, wfut, sem_value, sem_waiters, calls, failures, late, overtaken,
           gen >>

N == Len(dataset)
Tasks == 1..N

\* The outcome of an awaited call: the value returned or the exception raised.
NoException == [type |-> "None"]
Ok(v)     == [ok |-> TRUE,  val |-> v,    exc |-> NoException]
Raise(e)  == [ok |-> FALSE, val |-> <<>>, exc |-> e]
NoOutcome == [ok |-> FALSE, val |-> <<>>, exc |-> NoException]
\* What a call handed back to its caller: its value or its exception.
Payload(out) == IF out.ok THEN out.val ELSE out.exc

NoFut == [state |-> "none", val |-> NoOutcome]
PendingFut == [state |-> "pending", val |-> NoOutcome]
DoneFut(v) == [state |-> "done", val |-> v]
CancelledFut == [state |-> "cancelled", val |-> NoOutcome]

StepCb(i) == [cb |-> "step", t |-> i]
DoneCb(i) == [cb |-> "done", t |-> i]
ParentCb  == [cb |-> "parent", t |-> 0]

Min(S) == CHOOSE x \in S : \A y \in S : x <= y

\* ------------------------------------------------- aevaluate (base.py 97-120)
RetrieveCall(q) == [op |-> "retrieve", query |-> q]
ComputeCall(k, args) ==
    [op |-> "compute", index |-> k, query |-> args[1],
     expected_ids |-> args[2], retrieved_ids |-> args[3]]

\* metric.compute(query, expected_ids, retrieved_ids), base.py 113: a metric is
\* a function of its three arguments; "strict" raises on empty retrieved ids.
MetricRaises(m, args) == m.impl = "strict" /\ args[3] = <<>>
MetricCompute(m, args) ==
    [impl |-> m.impl, query |-> args[1], expected_ids |-> args[2],
     retrieved_ids |-> args[3]]

\* An argument list with expected and retrieved ids exchanged.
MetricArgsSwapped(q, e, r) == << q, r, e >>

\* The argument list of base.py 113.
MetricArgs(q, e, r) == << q, e, r >>

EmptyDict == [n \in {} |-> 0]

\* A store that keeps the entry a name already has.
DictPutFirst(md, name, v) ==
    [n \in (DOMAIN md) \cup {name} |-> IF n \in DOMAIN md THEN md[n] ELSE v]

\* metric_dict[metric.metric_name] = eval_result, base.py 114.
DictPut(md, name, v) ==
    [n \in (DOMAIN md) \cup {name} |-> IF n = name THEN v ELSE md[n]]

\* A loop body that drops a metric that raised and goes on.
MetricStepSkip(acc, k, m, i, q, e, r) ==
    LET args == MetricArgs(q, e, r)
        log  == Append(acc.calls, ComputeCall(k, args))
    IN  IF MetricRaises(m, args)
        THEN [md |-> acc.md, calls |-> log, exc |-> <<>>]
        ELSE [md |-> DictPut(acc.md, m.metric_name, MetricCompute(m, args)),
              calls |-> log, exc |-> <<>>]

\* One iteration of the loop of base.py 112-114.  acc carries metric_dict, the
\* calls made so far and the exception that left the loop, if any.
MetricStep(acc, k, m, i, q, e, r) ==
    LET args == MetricArgs(q, e, r)
        log  == Append(acc.calls, ComputeCall(k, args))
    IN  IF MetricRaises(m, args)
        THEN [md |-> acc.md, calls |-> log, exc |-> <<MetricError(i, k, m.impl)>>]
        ELSE [md |-> DictPut(acc.md, m.metric_name, MetricCompute(m, args)),
              calls |-> log, exc |-> <<>>]

RECURSIVE MetricLoop(_, _, _, _, _, _, _)
MetricLoop(ms, k, acc, i, q, e, r) ==
    IF k > Len(ms) \/ acc.exc # <<>>
    THEN acc
    ELSE MetricLoop(ms, k + 1, MetricStep(acc, k, ms[k], i, q, e, r), i, q, e, r)

RetrievalEvalResult(q, e, r, md) ==
    [query |-> q, expected_ids |-> e, retrieved_ids |-> r, metric_dict |-> md]

\* An await that turns a retriever failure into empty retrieved ids.
AwaitRetrievalFallback(out) == IF out.ok THEN out ELSE Ok(<<>>)

\* `retrieved_ids = await self._aget_retrieved_ids(query)`, base.py 110: the
\* await yields what the retriever returned or re-raises what it raised.
AwaitRetrieval(out) == out

\* An aevaluate that calls the retriever a second time when it raised, and
\* goes on with the ids of the second call.
AEvaluateTailRetry(ms, i, q, e, fut_val) ==
    LET r   == IF fut_val.ok THEN fut_val.val ELSE << "d2", "d1" >>
        pre == IF fut_val.ok THEN <<>> ELSE << RetrieveCall(q) >>
        acc == MetricLoop(ms, 1, [md |-> EmptyDict, calls |-> <<>>, exc |-> <<>>],
                          i, q, e, r)
    IN  IF acc.exc # <<>>
        THEN [out |-> Raise(acc.exc[1]), calls |-> pre \o acc.calls]
        ELSE [out |-> Ok(RetrievalEvalResult(q, e, r, acc.md)),
              calls |-> pre \o acc.calls]

\* aevaluate from the moment the retrieval future is done (base.py 110-120):
\* [out: Ok(RetrievalEvalResult) or Raise(exception), calls: the metric calls].
AEvaluateTail(ms, i, q, e, fut_val) ==
    LET got == AwaitRetrieval(fut_val)
    IN  IF ~got.ok
        THEN [out |-> Raise(got.exc), calls |-> <<>>]
        ELSE LET acc == MetricLoop(ms, 1, [md |-> EmptyDict, calls |-> <<>>, exc |-> <<>>],
                                   i, q, e, got.val)
             IN  IF acc.exc # <<>>
                 THEN [out |-> Raise(acc.exc[1]), calls |-> acc.calls]
                 ELSE [out |-> Ok(RetrievalEvalResult(q, e, got.val, acc.md)),
                       calls |-> acc.calls]

\* ------------------------------------- asyncio.Semaphore (base.py 127, 133)
\* A locked() that also reports the last free slot as taken.
LockedOffByOne(v, ws, wf) ==
    v <= 1 \/ \E k \in 1..Len(ws) : wf[ws[k]].state # "cancelled"

\* Semaphore.locked(): no free slot, or a waiter that was not cancelled.
Locked(v, ws, wf) ==
    v = 0 \/ \E k \in 1..Len(ws) : wf[ws[k]].state # "cancelled"

\* An acquire that takes no slot.
AcquireNowKeep(v) == v

\* The decrement of Semaphore.acquire() on the path that does not block.
AcquireNow(v) == v - 1

\* A _wake_up_next() that hands the slot to the last waiter that is not done.
WakeUpNextLast(v, ws, wf) ==
    LET cand == { k \in 1..Len(ws) : wf[ws[k]].state = "pending" }
    IN  IF cand = {}
        THEN [value |-> v, wfut |-> wf, sched |-> <<>>]
        ELSE LET j == ws[CHOOSE k \in cand : \A m \in cand : k >= m]
             IN  [value |-> v - 1,
                  wfut  |-> [wf EXCEPT ![j] = DoneFut(Ok(<<>>))],
                  sched |-> << StepCb(j) >>]

\* Semaphore._wake_up_next(): hand a slot to the first waiter that is not done.
WakeUpNext(v, ws, wf) ==
    LET cand == { k \in 1..Len(ws) : wf[ws[k]].state = "pending" }
    IN  IF cand = {}
        THEN [value |-> v, wfut |-> wf, sched |-> <<>>]
        ELSE LET j == ws[Min(cand)]
             IN  [value |-> v - 1,
                  wfut  |-> [wf EXCEPT ![j] = DoneFut(Ok(<<>>))],
                  sched |-> << StepCb(j) >>]

\* A release() that frees two slots.
ReleaseTwice(v, ws, wf) == WakeUpNext(v + 2, ws, wf)

\* A release() that frees no slot.
ReleaseLeak(v, ws, wf) == WakeUpNext(v, ws, wf)

\* A release() that frees the slot and wakes nobody.
ReleaseNoWake(v, ws, wf) == [value |-> v + 1, wfut |-> wf, sched |-> <<>>]

\* Semaphore.release(), called by `async with` on exit (base.py 133).
Release(v, ws, wf) == WakeUpNext(v + 1, ws, wf)

RemoveWaiter(ws, i) == SelectSeq(ws, LAMBDA x : x # i)

\* ------------------------------------------- asyncio.gather (base.py 140)
NoOuter == [state |-> "none", cancel_requested |-> FALSE, nfinished |-> 0, val |-> <<>>]

\* A gather() of no awaitable whose future stays pending.
GatherNothingPending == [NoOuter EXCEPT !.state = "pending"]

\* gather() of no awaitable: a future that is already done with [].
GatherNothing == [NoOuter EXCEPT !.state = "result", !.val = <<>>]

\* Results in the reverse of the order the coroutines were passed.
GatherResultsReversed(tv, n) == [k \in 1..n |-> tv[n + 1 - k]]

\* The list gather hands back: the children's results in the order the
\* coroutines were passed, i.e. the order of response_jobs (base.py 136-140).
GatherResults(tv, n) == [k \in 1..n |-> tv[k]]

\* A gather that keeps a child's exception as that child's result.
GatherChildRaisedKept(o, exc) ==
    IF o.nfinished = N
    THEN [o EXCEPT !.state = "result", !.val = GatherResults(tval, N)]
    ELSE o

\* What gather does with its future when a child that raised is done and the
\* future is still pending (return_exceptions is False at base.py 140).
GatherChildRaised(o, exc) ==
    [o EXCEPT !.state = "exception", !.val = exc]

\* A _done_callback in which a later child's exception replaces the one set.
GatherOnDoneLastRaise(o, st, v, tv, n) ==
    LET o1 == [o EXCEPT !.nfinished = @ + 1]
    IN  IF o.state = "exception" /\ st = "exception" THEN [o1 EXCEPT !.val = v]
        ELSE IF o.state # "pending" THEN o1
        ELSE IF st = "cancelled"
             THEN [o1 EXCEPT !.state = "exception", !.val = CancelledError]
        ELSE IF st = "exception"
             THEN GatherChildRaised(o1, v)
        ELSE IF o1.nfinished = n
             THEN IF o.cancel_requested
                  THEN [o1 EXCEPT !.state = "exception", !.val = CancelledError]
                  ELSE [o1 EXCEPT !.state = "result", !.val = GatherResults(tv, n)]
        ELSE o1

\* gather's _done_callback for a child in state st with value v.
GatherOnDone(o, st, v, tv, n) ==
    LET o1 == [o EXCEPT !.nfinished = @ + 1]
    IN  IF o.state # "pending" THEN o1
        ELSE IF st = "cancelled"
             THEN [o1 EXCEPT !.state = "exception", !.val = CancelledError]
        ELSE IF st = "exception"
             THEN GatherChildRaised(o1, v)
        ELSE IF o1.nfinished = n
             THEN IF o.cancel_requested
                  THEN [o1 EXCEPT !.state = "exception", !.val = CancelledError]
                  ELSE [o1 EXCEPT !.state = "result", !.val = GatherResults(tv, n)]
        ELSE o1

\* ------------------------------------------------------------------- Init
\* A generator over no nodes, on which no call is under way.
NoGen == [pc |-> "idle", nodes |-> 0, num |-> <<>>, k |-> 1, questions |-> <<>>,
          responses |-> <<>>, result |-> <<>>]

InitState ==
    /\ ppc = "init"
    /\ pmust = FALSE
    /\ pval = <<>>
    /\ outer = NoOuter
    /\ ready = <<>>
    /\ tpc = [i \in Tasks |-> "none"]
    /\ tstate = [i \in Tasks |-> "pending"]
    /\ tval = [i \in Tasks |-> <<>>]
    /\ tmust = [i \in Tasks |-> FALSE]
    /\ wfut = [i \in Tasks |-> NoFut]
    /\ sem_value = 0
    /\ sem_waiters = <<>>
    /\ calls = [i \in Tasks |-> <<>>]
    /\ failures = <<>>
    /\ late = {}
    /\ overtaken = FALSE

\* A dataset run: aevaluate_dataset(dataset, workers) on an evaluator.
Init ==
    /\ dataset \in Datasets
    /\ workers \in 1..MaxWorkers
    /\ metrics \in RunMetricLists
    /\ gen = NoGen
    /\ InitState

Inputs == << dataset, workers, metrics >>

Ended == ppc \in {"returned", "raised", "cancelled"}

\* ------------------------------ aevaluate_dataset, first step (122-140)
\* Creates the semaphore and one eval_worker coroutine per dataset entry in
\* iteration order; gather wraps each in a task, whose first step is queued,
\* and the call suspends on the gather future.  gather() of nothing returns a
\* future that is already done, so the call returns [] without suspending.
CallDataset ==
    /\ ppc = "init"
    /\ sem_value' = workers
    /\ IF N = 0
       THEN /\ outer' = GatherNothing
            /\ IF outer'.state = "result"
               THEN ppc' = "returned" /\ pval' = outer'.val
               ELSE ppc' = "awaiting" /\ UNCHANGED pval
            /\ UNCHANGED << ready, tpc >>
       ELSE /\ ppc' = "awaiting"
            /\ outer' = [NoOuter EXCEPT !.state = "pending"]
            /\ ready' = [i \in Tasks |-> StepCb(i)]
            /\ tpc' = [i \in Tasks |-> "scheduled"]
            /\ UNCHANGED pval
    /\ UNCHANGED << Inputs, gen, pmust, tstate, tval, tmust, wfut, sem_waiters,
                    calls, failures, late, overtaken >>

\* The task ends cancelled: Task.__step catches CancelledError.
TaskCancelled(i) ==
    /\ tstate' = [tstate EXCEPT ![i] = "cancelled"]
    /\ tval' = [tval EXCEPT ![i] = CancelledError]
    /\ tpc' = [tpc EXCEPT ![i] = "finished"]
    /\ tmust' = [tmust EXCEPT ![i] = FALSE]

\* eval_worker enters aevaluate and calls the retriever (base.py 134, 110).
IssueRetrieval(i, wf) ==
    /\ wfut' = [wf EXCEPT ![i] = PendingFut]
    /\ calls' = [calls EXCEPT ![i] = Append(@, RetrieveCall(dataset[i].query))]
    /\ tpc' = [tpc EXCEPT ![i] = "retrieve"]
    /\ late' = IF Ended THEN late \cup {i} ELSE late

\* First step of an eval_worker task (base.py 129-134).
StartWorker(i) ==
    /\ ready # <<>> /\ Head(ready) = StepCb(i)
    /\ tpc[i] = "scheduled"
    /\ IF tmust[i]
       THEN /\ TaskCancelled(i)
            /\ ready' = Append(Tail(ready), DoneCb(i))
            /\ UNCHANGED << sem_value, sem_waiters, wfut, calls, late >>
       ELSE IF ~Locked(sem_value, sem_waiters, wfut)
       THEN /\ sem_value' = AcquireNow(sem_value)
            /\ IssueRetrieval(i, wfut)
            /\ ready' = Tail(ready)
            /\ UNCHANGED << sem_waiters, tstate, tval, tmust >>
       ELSE /\ sem_waiters' = Append(sem_waiters, i)
            /\ wfut' = [wfut EXCEPT ![i] = PendingFut]
            /\ tpc' = [tpc EXCEPT ![i] = "acquire"]
            /\ ready' = Tail(ready)
            /\ UNCHANGED << sem_value, tstate, tval, tmust, calls, late >>
    /\ UNCHANGED << Inputs, gen, ppc, pmust, pval, outer, failures, overtaken >>

\* An eval_worker task resumes inside Semaphore.acquire().
ResumeAcquire(i) ==
    /\ ready # <<>> /\ Head(ready) = StepCb(i)
    /\ tpc[i] = "acquire"
    /\ LET ws1 == RemoveWaiter(sem_waiters, i)
           none == [value |-> sem_value, wfut |-> wfut, sched |-> <<>>]
       IN  /\ sem_waiters' = ws1
           /\ IF tmust[i] \/ wfut[i].state = "cancelled"
              THEN LET w == IF wfut[i].state # "cancelled"
                            THEN WakeUpNext(sem_value + 1, ws1, wfut)
                            ELSE none
                   IN  /\ TaskCancelled(i)
                       /\ sem_value' = w.value
                       /\ wfut' = [w.wfut EXCEPT ![i] = NoFut]
                       /\ ready' = Tail(ready) \o w.sched \o << DoneCb(i) >>
                       /\ UNCHANGED << calls, late >>
              ELSE LET w == IF sem_value > 0
                            THEN WakeUpNext(sem_value, ws1, wfut)
                            ELSE none
                   IN  /\ sem_value' = w.value
                       /\ IssueRetrieval(i, w.wfut)
                       /\ ready' = Tail(ready) \o w.sched
                       /\ UNCHANGED << tstate, tval, tmust >>
    /\ UNCHANGED << Inputs, gen, ppc, pmust, pval, outer, failures, overtaken >>

\* The retriever's future completes: _aget_retrieved_ids returns ids.
RetrievalReturns(i, r) ==
    /\ tpc[i] = "retrieve" /\ wfut[i].state = "pending"
    /\ wfut' = [wfut EXCEPT ![i] = DoneFut(Ok(r))]
    /\ ready' = Append(ready, StepCb(i))
    /\ UNCHANGED << Inputs, gen, ppc, pmust, pval, outer, tpc, tstate, tval, tmust,
                    sem_value, sem_waiters, calls, failures, late, overtaken >>

\* The retriever's future completes: _aget_retrieved_ids raises.
RetrievalRaises(i) ==
    /\ tpc[i] = "retrieve" /\ wfut[i].state = "pending"
    /\ wfut' = [wfut EXCEPT ![i] = DoneFut(Raise(RetrieverError(i)))]
    /\ ready' = Append(ready, StepCb(i))
    /\ UNCHANGED << Inputs, gen, ppc, pmust, pval, outer, tpc, tstate, tval, tmust,
                    sem_value, sem_waiters, calls, failures, late, overtaken >>

\* An eval_worker whose aevaluate yields to the event loop after its first
\* metric: the task is requeued with one metric computed, and computes the
\* remaining metrics and ends on its next step.
ResumeRetrieveYield(i) ==
    /\ ready # <<>> /\ Head(ready) = StepCb(i)
    /\ tpc[i] = "retrieve"
    /\ IF /\ ~tmust[i] /\ wfut[i].state = "done" /\ wfut[i].val.ok
          /\ Len(metrics) > 0 /\ Len(calls[i]) = 1
       THEN /\ calls' = [calls EXCEPT ![i] =
                            Append(@, ComputeCall(1, MetricArgs(dataset[i].query,
                                                                dataset[i].expected_ids,
                                                                wfut[i].val.val)))]
            /\ ready' = Append(Tail(ready), StepCb(i))
            /\ UNCHANGED << sem_value, wfut, tpc, tstate, tval, tmust, failures,
                            late, overtaken >>
       ELSE /\ LET rel == Release(sem_value, sem_waiters, wfut)
               IN  /\ sem_value' = rel.value
                   /\ wfut' = [rel.wfut EXCEPT ![i] = NoFut]
                   /\ ready' = Tail(ready) \o rel.sched \o << DoneCb(i) >>
            /\ IF tmust[i] \/ wfut[i].state = "cancelled"
               THEN /\ TaskCancelled(i)
                    /\ UNCHANGED << calls, failures, late, overtaken >>
               ELSE LET res == AEvaluateTail(metrics, i, dataset[i].query,
                                             dataset[i].expected_ids, wfut[i].val)
                        rest == IF Len(calls[i]) > 1 THEN Tail(res.calls) ELSE res.calls
                    IN  /\ tstate' = [tstate EXCEPT ![i] =
                                         IF res.out.ok THEN "result" ELSE "exception"]
                        /\ tval' = [tval EXCEPT ![i] = Payload(res.out)]
                        /\ tpc' = [tpc EXCEPT ![i] = "finished"]
                        /\ calls' = [calls EXCEPT ![i] = @ \o rest]
                        /\ failures' = IF res.out.ok THEN failures ELSE Append(failures, i)
                        /\ late' = IF Ended /\ res.calls # <<>> THEN late \cup {i} ELSE late
                        /\ overtaken' = (overtaken \/ \E j \in 1..(i - 1) : tstate[j] = "pending")
                        /\ UNCHANGED tmust
    /\ UNCHANGED << Inputs, gen, ppc, pmust, pval, outer, sem_waiters >>

\* An eval_worker task resumes after the retrieval call (base.py 110-120,
\* then the exit of `async with` at 133): the metrics run in this one step.
ResumeRetrieve(i) ==
    /\ ready # <<>> /\ Head(ready) = StepCb(i)
    /\ tpc[i] = "retrieve"
    /\ LET rel == Release(sem_value, sem_waiters, wfut)
       IN  /\ sem_value' = rel.value
           /\ wfut' = [rel.wfut EXCEPT ![i] = NoFut]
           /\ ready' = Tail(ready) \o rel.sched \o << DoneCb(i) >>
    /\ IF tmust[i] \/ wfut[i].state = "cancelled"
       THEN /\ TaskCancelled(i)
            /\ UNCHANGED << calls, failures, late, overtaken >>
       ELSE LET res == AEvaluateTail(metrics, i, dataset[i].query,
                                     dataset[i].expected_ids, wfut[i].val)
            IN  /\ tstate' = [tstate EXCEPT ![i] =
                                 IF res.out.ok THEN "result" ELSE "exception"]
                /\ tval' = [tval EXCEPT ![i] = Payload(res.out)]
                /\ tpc' = [tpc EXCEPT ![i] = "finished"]
                /\ calls' = [calls EXCEPT ![i] = @ \o res.calls]
                /\ failures' = IF res.out.ok THEN failures ELSE Append(failures, i)
                /\ late' = IF Ended /\ res.calls # <<>> THEN late \cup {i} ELSE late
                /\ overtaken' = (overtaken \/ \E j \in 1..(i - 1) : tstate[j] = "pending")
                /\ UNCHANGED tmust
    /\ UNCHANGED << Inputs, gen, ppc, pmust, pval, outer, sem_waiters >>

\* gather's _done_callback runs for child i; when it completes the gather
\* future, the wakeup of the suspended aevaluate_dataset call is queued.
GatherDone(i) ==
    /\ ready # <<>> /\ Head(ready) = DoneCb(i)
    /\ outer' = GatherOnDone(outer, tstate[i], tval[i], tval, N)
    /\ ready' = IF outer.state = "pending" /\ outer'.state # "pending"
                THEN Append(Tail(ready), ParentCb)
                ELSE Tail(ready)
    /\ UNCHANGED << Inputs, gen, ppc, pmust, pval, tpc, tstate, tval, tmust, wfut,
                    sem_value, sem_waiters, calls, failures, late, overtaken >>

\* aevaluate_dataset resumes from `await asyncio.gather(...)` (base.py 140-142).
ParentWakeup ==
    /\ ready # <<>> /\ Head(ready) = ParentCb
    /\ ppc = "awaiting"
    /\ ready' = Tail(ready)
    /\ pmust' = FALSE
    /\ IF pmust \/ (outer.state = "exception" /\ outer.val = CancelledError)
       THEN ppc' = "cancelled" /\ pval' = CancelledError
       ELSE IF outer.state = "exception"
       THEN ppc' = "raised" /\ pval' = outer.val
       ELSE ppc' = "returned" /\ pval' = outer.val
    /\ UNCHANGED << Inputs, gen, outer, tpc, tstate, tval, tmust, wfut, sem_value,
                    sem_waiters, calls, failures, late, overtaken >>

\* Task.cancel() on child i, as called by the gather future's cancel().
ChildCancelled(i) == tstate[i] = "pending"
ChildFutCancelled(i) == tstate[i] = "pending" /\ wfut[i].state = "pending"

RECURSIVE CancelSched(_)
CancelSched(k) ==
    IF k > N THEN <<>>
    ELSE (IF ChildFutCancelled(k) THEN << StepCb(k) >> ELSE <<>>) \o CancelSched(k + 1)

\* The caller cancels the task that runs aevaluate_dataset while it is
\* suspended on the gather future (Task.cancel, _GatheringFuture.cancel).
CancelCaller ==
    /\ ppc = "awaiting"
    /\ IF outer.state = "pending" /\ \E i \in Tasks : ChildCancelled(i)
       THEN /\ outer' = [outer EXCEPT !.cancel_requested = TRUE]
            /\ wfut' = [i \in Tasks |->
                          IF ChildFutCancelled(i) THEN CancelledFut ELSE wfut[i]]
            /\ tmust' = [i \in Tasks |->
                          IF ChildCancelled(i) /\ ~ChildFutCancelled(i)
                          THEN TRUE ELSE tmust[i]]
            /\ ready' = ready \o CancelSched(1)
            /\ UNCHANGED pmust
       ELSE /\ pmust' = TRUE
            /\ UNCHANGED << outer, wfut, tmust, ready >>
    /\ UNCHANGED << Inputs, gen, ppc, pval, tpc, tstate, tval, sem_value, sem_waiters,
                    calls, failures, late, overtaken >>

Next ==
    \/ CallDataset
    \/ \E i \in Tasks : StartWorker(i)
    \/ \E i \in Tasks : ResumeAcquire(i)
    \/ \E i \in Tasks, r \in RetrievedIds : RetrievalReturns(i, r)
    \/ \E i \in Tasks : RetrievalRaises(i)
    \/ \E i \in Tasks : ResumeRetrieve(i)
    \/ \E i \in Tasks : GatherDone(i)
    \/ ParentWakeup
    \/ CancelCaller

Spec == Init /\ [][Next]_vars

\* ------------------------------------------- evaluate (base.py 79-94)
\* A single evaluation: asyncio.run(self.aevaluate(query, expected_ids)).
\* dataset[1] holds the two arguments; the call's outcome goes to ppc, pval.
InitEval ==
    /\ dataset \in [1..1 -> Entries]
    /\ workers = DefaultWorkers
    /\ metrics \in MetricLists
    /\ gen = NoGen
    /\ InitState

\* aevaluate runs to its first suspension: the retrieval call (base.py 110).
CallEvaluate ==
    /\ ppc = "init"
    /\ ppc' = "awaiting"
    /\ IssueRetrieval(1, wfut)
    /\ UNCHANGED << Inputs, gen, pmust, pval, outer, ready, tstate, tval, tmust,
                    sem_value, sem_waiters, failures, overtaken >>

\* aevaluate resumes once the retrieval future is done (base.py 110-120).
EvaluateResume ==
    /\ ready # <<>> /\ Head(ready) = StepCb(1)
    /\ ppc = "awaiting"
    /\ tpc[1] = "retrieve"
    /\ LET res == AEvaluateTail(metrics, 1, dataset[1].query,
                                dataset[1].expected_ids, wfut[1].val)
       IN  /\ ppc' = IF res.out.ok THEN "returned" ELSE "raised"
           /\ pval' = Payload(res.out)
           /\ calls' = [calls EXCEPT ![1] = @ \o res.calls]
    /\ tpc' = [tpc EXCEPT ![1] = "finished"]
    /\ ready' = Tail(ready)
    /\ UNCHANGED << Inputs, gen, pmust, outer, tstate, tval, tmust, wfut, sem_value,
                    sem_waiters, failures, late, overtaken >>

NextEval ==
    \/ CallEvaluate
    \/ \E r \in RetrievedIds : RetrievalReturns(1, r)
    \/ RetrievalRaises(1)
    \/ EvaluateResume

SpecEval == InitEval /\ [][NextEval]_vars

\* ------------------------------ two evaluate calls in a row (base.py 79-120)
\* The evaluator is called twice, one call after the other has ended:
\* dataset[c] holds the arguments of call c, and asyncio.run runs the
\* aevaluate of call c as task c, whose outcome goes to tstate[c], tval[c].
\* All that the evaluator keeps between the calls is self.metrics.
InitTwice ==
    /\ dataset \in [1..2 -> Entries]
    /\ workers = DefaultWorkers
    /\ metrics \in MetricLists
    /\ gen = NoGen
    /\ InitState

\* A metric loop that uses up the evaluator's metrics, as iterating a
\* one-shot iterator would.
MetricsConsumed(ms) == <<>>

\* `for metric in self.metrics` (base.py 112): self.metrics is a list
\* (base.py 53-55), and iterating it leaves it as it was.
MetricsAfterLoop(ms) == ms

\* evaluate(query, expected_ids) is called: aevaluate runs to its first
\* suspension, the retrieval call (base.py 92-94, 110).
EvaluateCall(c) ==
    /\ tpc[c] = "none"
    /\ \A b \in 1..(c - 1) : tpc[b] = "finished"
    /\ IssueRetrieval(c, wfut)
    /\ UNCHANGED << Inputs, gen, ppc, pmust, pval, outer, ready, tstate, tval, tmust,
                    sem_value, sem_waiters, failures, overtaken >>

\* aevaluate of call c resumes once the retrieval future is done and runs to
\* its end (base.py 110-120); asyncio.run hands its outcome to the caller.
EvaluateReturn(c) ==
    /\ ready # <<>> /\ Head(ready) = StepCb(c)
    /\ tpc[c] = "retrieve"
    /\ LET res == AEvaluateTail(metrics, c, dataset[c].query,
                                dataset[c].expected_ids, wfut[c].val)
       IN  /\ tstate' = [tstate EXCEPT ![c] =
                            IF res.out.ok THEN "result" ELSE "exception"]
           /\ tval' = [tval EXCEPT ![c] = Payload(res.out)]
           /\ calls' = [calls EXCEPT ![c] = @ \o res.calls]
    /\ metrics' = IF wfut[c].val.ok THEN MetricsAfterLoop(metrics) ELSE metrics
    /\ tpc' = [tpc EXCEPT ![c] = "finished"]
    /\ ready' = Tail(ready)
    /\ UNCHANGED << dataset, workers, gen, ppc, pmust, pval, outer, tmust, wfut,
                    sem_value, sem_waiters, failures, late, overtaken >>

NextTwice ==
    \/ \E c \in Tasks : EvaluateCall(c)
    \/ \E c \in Tasks : \E r \in RetrievedIds : RetrievalReturns(c, r)
    \/ \E c \in Tasks : RetrievalRaises(c)
    \/ \E c \in Tasks : EvaluateReturn(c)

SpecTwice == InitTwice /\ [][NextTwice]_vars

\* ---------- generate_questions_from_nodes (dataset_generation.py 110-152)
\* A text is a sequence of characters; a question is a text.
MaxNodes == 2
MaxNum == 2

Digit == {"0", "1", "2", "3", "4", "5", "6", "7", "8", "9"}
Whitespace == {" ", "\t", "\n", "\r"}

\* str.strip(): leading and trailing whitespace removed.
RECURSIVE LStrip(_)
LStrip(s) == IF s # <<>> /\ Head(s) \in Whitespace THEN LStrip(Tail(s)) ELSE s
RECURSIVE RStrip(_)
RStrip(s) ==
    IF s # <<>> /\ s[Len(s)] \in Whitespace THEN RStrip(SubSeq(s, 1, Len(s) - 1)) ELSE s
Strip(s) == RStrip(LStrip(s))

\* str.split("\n"): the pieces between the newlines, at least one piece.
RECURSIVE Split(_)
Split(s) ==
    IF \E k \in 1..Len(s) : s[k] = "\n"
    THEN LET k == CHOOSE j \in 1..Len(s) :
                     s[j] = "\n" /\ \A h \in 1..(j - 1) : s[h] # "\n"
         IN  << SubSeq(s, 1, k - 1) >> \o Split(SubSeq(s, k + 1, Len(s)))
    ELSE << s >>

\* re.sub(r"^\d+[\).\s]", "", question), dataset_generation.py 140: a run
\* of digits at the very start of the text, followed by ")", "." or a
\* whitespace character, is removed together with that character.
LeadingDigits(s) ==
    CHOOSE n \in 0..Len(s) :
        /\ \A k \in 1..n : s[k] \in Digit
        /\ n = Len(s) \/ s[n + 1] \notin Digit
ReSubNumber(s) ==
    LET n == LeadingDigits(s)
    IN  IF n >= 1 /\ n < Len(s) /\ s[n + 1] \in ({")", "."} \cup Whitespace)
        THEN SubSeq(s, n + 2, Len(s))
        ELSE s

\* dataset_generation.py 138-141: the response is stripped and split into
\* lines, and each line has its number removed and is then stripped.
CleanedQuestions(response) ==
    LET result == Split(Strip(response))
    IN  [k \in 1..Len(result) |-> Strip(ReSubNumber(result[k]))]

IsQuestion(q) == q # <<>>
\* questions[:num]
Take(qs, n) == SubSeq(qs, 1, Min({n, Len(qs)}))

\* What the generation backend may answer for a node.
Responses == {
    << "1", ".", " ", "a", "\n", "2", ".", " ", "b" >>,
    << "a", "\n", "\n", "b", "?" >>,
    << >>,
    << "1", ")", " ", "a", "\n", " ", "2", ")", " ", "b" >>,
    << " ", "1", "0", ".", "a", " " >>,
    << "1", ".", "\n", "2", " ", "b", "\r" >> }

\* num: Optional[int], as << >> for None and << n >> for n.
Nums == { << >> } \cup { << n >> : n \in 0..MaxNum }

\* A DatasetGenerator over 0..MaxNodes nodes.
InitGen ==
    /\ dataset = << >>
    /\ workers = DefaultWorkers
    /\ metrics = << >>
    /\ gen \in { [NoGen EXCEPT !.nodes = n] : n \in 0..MaxNodes }
    /\ InitState

GenUnchanged ==
    UNCHANGED << Inputs, ppc, pmust, pval, outer, ready, tpc, tstate, tval, tmust,
                 wfut, sem_value, sem_waiters, calls, failures, late, overtaken >>

\* generate_questions_from_nodes(num) is called (150-152, 114).
CallGenerate(num) ==
    /\ gen.pc = "idle"
    /\ gen' = [gen EXCEPT !.pc = "loop", !.num = num]
    /\ GenUnchanged

\* `if num is not None and len(questions) >= num: break` (117-118).
EnoughQuestions == gen.num # << >> /\ Len(gen.questions) >= gen.num[1]

\* One pass of the loop over the nodes (116-142): the node is sent to the
\* backend, and the cleaned lines of its response extend questions.
QueryNode(response) ==
    /\ gen.pc = "loop"
    /\ gen.k <= gen.nodes
    /\ ~EnoughQuestions
    /\ gen' = [gen EXCEPT !.k = @ + 1,
                          !.responses = Append(@, response),
                          !.questions = @ \o CleanedQuestions(response)]
    /\ GenUnchanged

\* The loop ends; the empty questions are dropped and the first num of the
\* others are returned (144-148).
ReturnQuestions ==
    /\ gen.pc = "loop"
    /\ gen.k > gen.nodes \/ EnoughQuestions
    /\ LET questions == SelectSeq(gen.questions, IsQuestion)
       IN  gen' = [gen EXCEPT !.pc = "done",
                              !.result = IF gen.num # << >>
                                         THEN Take(questions, gen.num[1])
                                         ELSE questions]
    /\ GenUnchanged

NextGen ==
    \/ \E num \in Nums : CallGenerate(num)
    \/ \E response \in Responses : QueryNode(response)
    \/ ReturnQuestions

SpecGen == InitGen /\ [][NextGen]_vars

\* ================================================================ claims
IsException(v) == "type" \in DOMAIN v
Failed == { failures[k] : k \in 1..Len(failures) }
InFlight == { i \in Tasks : tpc[i] = "retrieve" }
Outstanding == { i \in Tasks : tstate[i] = "pending" }
MetricNames == { metrics[k].metric_name : k \in 1..Len(metrics) }

\* C1: a call of aevaluate_dataset that returns, returns one result per
\* dataset entry, and the i-th result carries the query of the i-th entry of
\* the dataset's iteration order, whatever the order of completion and the
\* number of workers.
C1_ResultOrder ==
    ppc = "returned" =>
        /\ Len(pval) = N
        /\ \A i \in Tasks : pval[i].query = dataset[i].query

\* A run that returned although a later entry's evaluation completed before an
\* earlier one's, on a dataset whose first and last queries differ.
C1_Witness ==
    /\ ppc = "returned" /\ overtaken
    /\ N = MaxQueries /\ dataset[1].query # dataset[N].query

\* C2: at most `workers` evaluations have issued their retrieval call and not
\* yet finished, in every state of a dataset run.
C2_ConcurrencyBound == Cardinality(InFlight) <= workers

\* A dataset larger than the limit, the limit reached, and a task waiting.
C2_Witness ==
    /\ N > workers
    /\ Cardinality(InFlight) = workers
    /\ sem_waiters # <<>>

\* C3: a run in which an evaluation failed never returns a result sequence;
\* a run that returns has exactly one populated result per dataset entry.
C3_AllOrNothing ==
    /\ failures # <<>> => ppc # "returned"
    /\ ppc = "returned" =>
          /\ Len(pval) = N
          /\ \A i \in Tasks :
                /\ ~IsException(pval[i])
                /\ tstate[i] = "result" /\ pval[i] = tval[i]
                /\ pval[i].expected_ids = dataset[i].expected_ids
                /\ DOMAIN pval[i].metric_dict = MetricNames

\* A run of three entries that raised because the last entry's evaluation
\* failed while the first two had produced results.
C3_Witness ==
    /\ ppc = "raised" /\ N = 3
    /\ failures = << 3 >>
    /\ tstate[1] = "result" /\ tstate[2] = "result"

\* C4 as stated: the error raised by aevaluate_dataset is the failure of the
\* failed evaluation that is earliest in dataset order.
C4_Original ==
    ppc = "raised" => (Failed # {} /\ pval = tval[Min(Failed)])

\* C4 as amended: the error raised by aevaluate_dataset is the failure that
\* occurred first in time, whatever its position in the dataset.
C4_FirstInTime ==
    ppc = "raised" => (failures # <<>> /\ pval = tval[failures[1]])

\* Two evaluations failed, the later entry's first, and the run has raised.
C4_Witness ==
    /\ ppc = "raised"
    /\ Len(failures) >= 2 /\ failures[1] > failures[2]

\* C5: once aevaluate_dataset has returned or raised, no per-query task is
\* still pending or holds a slot, and none calls the retriever or a metric.
C5_NoTaskOutlives ==
    Ended => (Outstanding = {} /\ InFlight = {} /\ late = {})

\* C6: when a cancelled aevaluate_dataset call ends, every per-query task has
\* ended and the semaphore has all its slots free.
C6_CancelReleasesAll ==
    ppc = "cancelled" => (Outstanding = {} /\ sem_value = workers)

\* ------------------------------------------- claims on a single evaluation
Max(S) == CHOOSE x \in S : \A y \in S : x >= y
IsPrefix(a, b) == Len(a) <= Len(b) /\ a = SubSeq(b, 1, Len(a))

EvalQuery    == dataset[1].query
EvalExpected == dataset[1].expected_ids
\* What the retriever did, once its future is done.
Retrieved    == wfut[1].val
RetrieverFailed == Ended /\ ~Retrieved.ok
Raising(r) ==
    { k \in 1..Len(metrics) : MetricRaises(metrics[k], << EvalQuery, EvalExpected, r >>) }
MetricFailed == Ended /\ Retrieved.ok /\ Raising(Retrieved.val) # {}

FullCalls(r) ==
    << RetrieveCall(EvalQuery) >> \o
    [k \in 1..Len(metrics) |-> ComputeCall(k, << EvalQuery, EvalExpected, r >>)]

\* C7: aevaluate calls the retriever exactly once; only after that call has
\* completed it calls each configured metric once, in configuration order,
\* with (query, expected_ids, the ids the retriever returned); when the
\* retriever raised, no metric is called.  (When a metric raises, the calls
\* made are a prefix of that sequence.)
C7_CallDiscipline ==
    /\ ppc = "init" => calls[1] = <<>>
    /\ ppc = "awaiting" => calls[1] = << RetrieveCall(EvalQuery) >>
    /\ ppc = "returned" => (Retrieved.ok /\ calls[1] = FullCalls(Retrieved.val))
    /\ RetrieverFailed => calls[1] = << RetrieveCall(EvalQuery) >>
    /\ (ppc = "raised" /\ Retrieved.ok) =>
          (Len(calls[1]) >= 2 /\ IsPrefix(calls[1], FullCalls(Retrieved.val)))

\* A call that returned with the largest number of metrics configured and
\* retrieved ids that differ from the expected ids.
C7_Witness ==
    /\ ppc = "returned" /\ Len(metrics) = MaxMetrics
    /\ Retrieved.val # EvalExpected
    /\ Len(calls[1]) = MaxMetrics + 1

\* C8: the metric_dict of a returned result has exactly the configured
\* metrics' names as keys, and under each name the result of the last
\* configured metric of that name.
C8_MetricDict ==
    ppc = "returned" =>
        /\ DOMAIN pval.metric_dict = MetricNames
        /\ \A nm \in MetricNames :
              LET last == Max({ k \in 1..Len(metrics) : metrics[k].metric_name = nm })
              IN  pval.metric_dict[nm] =
                     MetricCompute(metrics[last], << EvalQuery, EvalExpected, Retrieved.val >>)

\* A returned result of an evaluator with two different metrics of one name.
C8_Witness ==
    /\ ppc = "returned" /\ Len(metrics) >= 2
    /\ metrics[1].metric_name = metrics[2].metric_name
    /\ metrics[1] # metrics[2]

\* C9 as stated: when the retriever raises, aevaluate raises a
\* RetrievalFailure that carries the retriever's exception as its cause.
C9_Original ==
    RetrieverFailed =>
        (ppc = "raised" /\ pval.type = "RetrievalFailure" /\ pval.cause = Retrieved.exc)

\* C9 as amended: when the retriever raises, aevaluate raises that very
\* exception, not wrapped, and returns no result.
C9_RetrieverErrorPropagates ==
    RetrieverFailed => (ppc = "raised" /\ pval = Retrieved.exc)

\* A call on an evaluator with metrics that ended because the retriever raised.
C9_Witness == RetrieverFailed /\ ppc = "raised" /\ Len(metrics) > 0

\* C10 as stated: when a metric's compute raises, aevaluate raises a
\* MetricFailure that wraps the cause and carries the failing metric's name.
C10_Original ==
    MetricFailed =>
        /\ ppc = "raised" /\ pval.type = "MetricFailure"
        /\ pval.metric_name = metrics[Min(Raising(Retrieved.val))].metric_name

\* C10 as amended: when a metric's compute raises, aevaluate raises that very
\* exception (of the first metric that raises), not wrapped and without the
\* metric's name attached, and returns no result.
C10_MetricErrorPropagates ==
    MetricFailed =>
        LET k == Min(Raising(Retrieved.val))
        IN  ppc = "raised" /\ pval = MetricError(1, k, metrics[k].impl)

\* The first of two metrics raised and the call ended.
C10_Witness ==
    /\ MetricFailed /\ ppc = "raised"
    /\ Len(metrics) = 2 /\ Min(Raising(Retrieved.val)) = 1

\* ------------------------------------------- claims on the admission gate
IsRetrieve(c) == c.op = "retrieve"
RetrieveCount(i) == Len(SelectSeq(calls[i], IsRetrieve))
Issued(i) == calls[i] # <<>>
\* Tasks that own a slot: those awaiting retrieval, and waiters to which
\* release() has handed a slot and which have not resumed yet.
Holders ==
    InFlight \cup { i \in Tasks : tpc[i] = "acquire" /\ wfut[i].state = "done" }

\* C11: with workers = 1 a dataset run is sequential: never two retrieval
\* calls outstanding, and the retrieval call of entry i+1 is issued only
\* after the evaluation of entry i has finished.
C11_Sequential ==
    workers = 1 =>
        /\ Cardinality(InFlight) <= 1
        /\ \A i \in Tasks : (i < N /\ Issued(i + 1)) => tpc[i] = "finished"

\* workers = 1, three entries, the second one's retrieval outstanding after
\* the first evaluation finished and while the third waits at the gate.
C11_Witness ==
    /\ workers = 1 /\ N = 3
    /\ tpc[1] = "finished" /\ tpc[2] = "retrieve" /\ tpc[3] = "acquire"

\* C13: on an empty dataset aevaluate_dataset returns the empty sequence,
\* raises nothing, calls no retriever and takes no slot of the semaphore.
C13_EmptyDataset ==
    (N = 0 /\ ppc # "init") =>
        /\ ppc = "returned" /\ pval = <<>>
        /\ sem_value = workers /\ sem_waiters = <<>>
        /\ ready = <<>>

\* The call on an empty dataset has returned.
C13_Witness == N = 0 /\ ppc = "returned"

\* C15: the retriever is called at most once per dataset entry in every run,
\* also after a failure, and exactly once per entry in a run that returns.
C15_NoRetry ==
    /\ \A i \in Tasks : RetrieveCount(i) <= 1
    /\ ppc = "returned" => \A i \in Tasks : RetrieveCount(i) = 1

\* A run in which an evaluation failed on the retriever's exception and
\* every entry's retriever was called once.
C15_Witness ==
    /\ N = 3 /\ \E i \in Tasks : tstate[i] = "exception" /\ tval[i] = RetrieverError(i)
    /\ \A i \in Tasks : tpc[i] = "finished" /\ RetrieveCount(i) = 1

\* C18: once the semaphore exists, free slots plus tasks that own a slot
\* equal workers in every state; when every task has ended, whether with a
\* result, an exception or by cancellation, all slots are free again.
C18_SlotConservation ==
    ppc # "init" =>
        /\ sem_value >= 0
        /\ sem_value + Cardinality(Holders) = workers
        /\ (\A i \in Tasks : tpc[i] = "finished") => sem_value = workers

\* Every task has ended, one with a result, one with an exception and one
\* cancelled, and all slots are free.
C18_Witness ==
    /\ N = 3 /\ \A i \in Tasks : tpc[i] = "finished"
    /\ { tstate[i] : i \in Tasks } = {"result", "exception", "cancelled"}
    /\ sem_value = workers

\* C19: retrieval calls are issued in dataset order: the retrieval call of a
\* later entry is never issued before that of an earlier entry.
C19_FifoAdmission ==
    \A i \in Tasks, j \in Tasks : (i < j /\ Issued(j)) => Issued(i)

\* All three retrieval calls issued although two tasks had to wait at the gate.
C19_Witness ==
    /\ N = 3 /\ workers = 1
    /\ \A i \in Tasks : Issued(i)
    /\ tpc[3] = "retrieve"

\* The steps of a per-query task of a run without admission gate: the first
\* step calls the retriever at once, the second ends the evaluation; neither
\* reads or writes the semaphore.
UngatedStart(i) ==
    /\ ready # <<>> /\ Head(ready) = StepCb(i)
    /\ tpc[i] = "scheduled"
    /\ IF tmust[i]
       THEN /\ TaskCancelled(i)
            /\ ready' = Append(Tail(ready), DoneCb(i))
            /\ UNCHANGED << wfut, calls, late >>
       ELSE /\ IssueRetrieval(i, wfut)
            /\ ready' = Tail(ready)
            /\ UNCHANGED << tstate, tval, tmust >>
    /\ UNCHANGED << Inputs, gen, ppc, pmust, pval, outer, failures, overtaken >>

UngatedResume(i) ==
    /\ ready # <<>> /\ Head(ready) = StepCb(i)
    /\ tpc[i] = "retrieve"
    /\ wfut' = [wfut EXCEPT ![i] = NoFut]
    /\ ready' = Append(Tail(ready), DoneCb(i))
    /\ IF tmust[i] \/ wfut[i].state = "cancelled"
       THEN /\ TaskCancelled(i)
            /\ UNCHANGED << calls, failures, late, overtaken >>
       ELSE LET res == AEvaluateTail(metrics, i, dataset[i].query,
                                     dataset[i].expected_ids, wfut[i].val)
            IN  /\ tstate' = [tstate EXCEPT ![i] =
                                 IF res.out.ok THEN "result" ELSE "exception"]
                /\ tval' = [tval EXCEPT ![i] = Payload(res.out)]
                /\ tpc' = [tpc EXCEPT ![i] = "finished"]
                /\ calls' = [calls EXCEPT ![i] = @ \o res.calls]
                /\ failures' = IF res.out.ok THEN failures ELSE Append(failures, i)
                /\ late' = IF Ended /\ res.calls # <<>> THEN late \cup {i} ELSE late
                /\ overtaken' = (overtaken \/ \E j \in 1..(i - 1) : tstate[j] = "pending")
                /\ UNCHANGED tmust
    /\ UNCHANGED << Inputs, gen, ppc, pmust, pval, outer >>

\* The gate never closes: no waiter, and a free slot for every task that has
\* not started yet.
GateOpen ==
    /\ sem_waiters = <<>>
    /\ \A i \in Tasks : tpc[i] # "acquire"
    /\ (\E i \in Tasks : tpc[i] = "scheduled") => ~Locked(sem_value, sem_waiters, wfut)

\* C12: with workers >= dataset size the run behaves as a run without gate:
\* no task ever waits at the semaphore, a task that starts always finds the
\* gate open, and every step of a per-query task is, on everything but the
\* semaphore, the step the task takes in the run without gate.
C12_NoGate ==
    /\ [](workers >= N => GateOpen)
    /\ [][workers >= N =>
            \A i \in Tasks :
               /\ StartWorker(i) => UngatedStart(i)
               /\ ResumeRetrieve(i) => UngatedResume(i)
               /\ ~ResumeAcquire(i)]_vars

\* As many workers as entries, and every entry's retrieval call outstanding.
C12_Witness ==
    /\ N >= 2 /\ workers >= N
    /\ Cardinality(InFlight) = N

\* ------------------------------------------------ the metric step (C17)
IsCompute(c) == c.op = "compute"
ComputeCalls(i) == SelectSeq(calls[i], IsCompute)
\* The metric calls of task i are those of one whole pass of the loop of
\* base.py 112-114: metrics 1..n in order, n short of the list only when the
\* pass ended in an exception.
WholePass(i) ==
    LET cs == ComputeCalls(i)
    IN  /\ \A k \in 1..Len(cs) : cs[k].index = k
        /\ Len(cs) = Len(metrics) \/ tstate[i] = "exception"
\* A started task that has not ended is suspended at the gate (on its
\* semaphore future) or on its retrieval call, with no metric computed yet.
SuspendedOnlyAtAwait(i) ==
    (tstate[i] = "pending" /\ tpc[i] \notin {"none", "scheduled"}) =>
        /\ tpc[i] \in {"acquire", "retrieve"}
        /\ wfut[i].state # "none"
        /\ ComputeCalls(i) = <<>>
\* A step that computes a metric of task i takes i from its retrieval await
\* to its end, and computes no metric of another task.
MetricsInOneStep(i) ==
    (ComputeCalls(i)' # ComputeCalls(i)) =>
        /\ tpc[i] = "retrieve" /\ ComputeCalls(i) = <<>>
        /\ tpc'[i] = "finished" /\ WholePass(i)'
        /\ \A j \in Tasks \ {i} : calls'[j] = calls[j] /\ tpc'[j] = tpc[j]

\* C17: a per-query task suspends only while waiting at the admission gate or
\* awaiting its retrieval call: from the moment its retrieval call returns
\* until its EvalResult is built, all of its metric computations run as one
\* atomic step, with no other per-query task's step interleaved between them.
C17_AtomicMetrics ==
    /\ [](\A i \in Tasks :
            /\ SuspendedOnlyAtAwait(i)
            /\ ComputeCalls(i) # <<>> => (tpc[i] = "finished" /\ WholePass(i)))
    /\ [][\A i \in Tasks : MetricsInOneStep(i)]_vars
\* Task 1 has computed its metrics and ended while the retrieval of task 2
\* has returned and the step of task 2 is still queued.
C17_Witness ==
    /\ N >= 2
    /\ tpc[1] = "finished" /\ Len(ComputeCalls(1)) = Len(metrics)
    /\ tpc[2] = "retrieve" /\ wfut[2].state = "done" /\ wfut[2].val.ok

\* ------------------------------------------------------ idempotence (C14)
Returned(c) == tpc[c] = "finished" /\ tstate[c] = "result"
SameCall ==
    /\ Returned(1) /\ Returned(2)
    /\ dataset[1] = dataset[2]
    /\ tval[1].retrieved_ids = tval[2].retrieved_ids

GenDone == gen.pc = "done"
RECURSIVE Flatten(_)
Flatten(ss) == IF ss = << >> THEN << >> ELSE Head(ss) \o Flatten(Tail(ss))
\* A line of a response with its surrounding whitespace and its leading
\* list number removed.
Unnumbered(line) == Strip(ReSubNumber(Strip(line)))
\* The lines of the responses received, in node order and line order.
Lines == Flatten([k \in 1..Len(gen.responses) |-> Split(Strip(gen.responses[k]))])
\* The number of entries (empty ones included) given by the first k responses.
Accumulated(k) ==
    Len(Flatten([h \in 1..k |-> Split(Strip(gen.responses[h]))]))
HasListNumber(q) == ReSubNumber(q) # q

\* C20: generate_questions_from_nodes(num) returns only non-empty questions,
\* in node order and within a node in output-line order, each with a leading
\* list number stripped; when num is given the result has at most num
\* questions, and no further node is sent to the generation backend once the
\* questions accumulated so far (empty entries included) number at least num.
C20_Questions ==
    GenDone =>
        LET all == SelectSeq([k \in 1..Len(Lines) |-> Unnumbered(Lines[k])], IsQuestion)
        IN  /\ \A k \in 1..Len(gen.result) : gen.result[k] # << >>
            /\ gen.result = IF gen.num = << >> THEN all ELSE Take(all, gen.num[1])
            /\ gen.num # << >> =>
                  /\ Len(gen.result) <= gen.num[1]
                  /\ \A k \in 1..(Len(gen.responses) - 1) : Accumulated(k) < gen.num[1]
            /\ Len(gen.responses) < gen.nodes =>
                  (gen.num # << >> /\ Accumulated(Len(gen.responses)) >= gen.num[1])

\* ------------------------------------------------------------- liveness
\* The event loop runs the callback at the head of its ready queue.
LoopStep ==
    \/ \E i \in Tasks : StartWorker(i) \/ ResumeAcquire(i) \/ ResumeRetrieve(i) \/ GatherDone(i)
    \/ ParentWakeup

\* The retrieval call of task i completes, with ids or with an exception.
RetrievalCompletes(i) ==
    /\ i \in Tasks
    /\ (\E r \in RetrievedIds : RetrievalReturns(i, r)) \/ RetrievalRaises(i)

\* The call is made, the loop keeps running its ready callbacks, and every
\* retrieval call eventually completes.  The caller's cancel() is not forced.
Fairness ==
    /\ WF_vars(CallDataset)
    /\ WF_vars(LoopStep)
    /\ \A i \in 1..MaxQueries : WF_vars(RetrievalCompletes(i))

SpecLive == Init /\ [][Next]_vars /\ Fairness

Waiting(i) == i \in Tasks /\ tpc[i] = "acquire"

\* A task waits at the gate only while another one is inside it or the loop
\* has a callback to run.
NoGateDeadlock ==
    (\E i \in Tasks : Waiting(i)) => (InFlight # {} \/ ready # <<>>)

\* C16: when every retrieval call eventually completes, a task that waits at
\* the gate is eventually admitted (it issues its retrieval call) unless the
\* caller's cancel() ends it first, the aevaluate_dataset call eventually
\* returns or raises, and no state has waiting tasks with nothing left to run.
C16_GateLiveness ==
    /\ []NoGateDeadlock
    /\ \A i \in 1..MaxQueries :
          Waiting(i) ~> (i \in Tasks /\ (Issued(i) \/ tstate[i] = "cancelled"))
    /\ (ppc = "init") ~> Ended

\* A task that had to wait at the gate has issued its retrieval call, and the
\* call has returned.
C16_Witness ==
    /\ workers = 1 /\ N = 3
    /\ ppc = "returned"

====
